---- MODULE Spec2Model ----
(***************************************************************************)
(* A model of the search engine: the indexing pipeline of                  *)
(* core/indexer.py (FileIndexer) and the query functions of                *)
(* core/searcher.py, over an inverted-index store (Whoosh) of which only   *)
(* the operations the code calls are modelled: create_in, open_dir,        *)
(* writer/update_document/commit and search.                               *)
(***************************************************************************)
EXTENDS Integers, Sequences, FiniteSets, TLC

(***************************************************************************)
(* Bounds of the model.                                                    *)
(***************************************************************************)
\* how many times the files of the directory are modified between runs
MaxMods == 1
\* modification times (and content versions) of a file are 1..MaxMtime
MaxMtime == 2
\* pages of a PDF / paragraphs of a DOCX / chunks of a text file
MaxParts == 2
\* tokens of a keyword query
MaxQueryLen == 2
\* the days of the model are 1970-01-01 (day 0) to day MaxDay
MaxDay == 3
\* the instants of a day: 0 is 00:00:00, TicksPerDay - 2 is 23:59:59 and
\* TicksPerDay - 1 is 23:59:59.999999
TicksPerDay == 4
\* characters of a file name
MaxNameLen == 3

\* entries an lru_cache table holds: stands for Config.MAX_CACHE_SIZE, which
\* is 1000
CacheCapacity == 2
\* synonym lookups in a behaviour
MaxLookups == 4

\* the largest number of CPUs os.cpu_count() reports
MaxCpus == 64

(***************************************************************************)
(* config.py                                                               *)
(***************************************************************************)
SUPPORTED_EXTENSIONS == {".pdf", ".docx", ".txt"}
PDF_MIN_SIZE == 1024
PDF_MAX_PAGES == 1000
MAX_SYNONYMS == 5
FILE_SEARCH_LIMIT == 50

\* os.cpu_count() returning None, when the number of CPUs cannot be
\* determined; it returns no 0, which `or` would treat alike
NoCpuCount == 0

\* line 37: WORKERS = min(os.cpu_count() or 4, 8)
WORKERS(cpu_count_) ==
  LET n == IF cpu_count_ # NoCpuCount THEN cpu_count_ ELSE 4
  IN  IF n <= 8 THEN n ELSE 8

None == [kind |-> "None", n |-> 0, ver |-> 0]
Str(n, ver) == [kind |-> "str", n |-> n, ver |-> ver]

\* the result of a call: a returned value, or an exception raised to the caller
Return(v) == [raised |-> FALSE, val |-> v]
Raise == [raised |-> TRUE, val |-> None]

Min(a, b) == IF a <= b THEN a ELSE b

(***************************************************************************)
(* The file system under the indexed root.  An entry is what               *)
(* directory.rglob('*') yields; l.txt is a symbolic link to a.txt, so that *)
(* Path.resolve() maps both to the same path.  s.pdf is smaller than       *)
(* PDF_MIN_SIZE, n.md has no supported extension.                          *)
(***************************************************************************)
Entries == {"a.txt", "l.txt", "b.pdf", "s.pdf", "n.md"}
RealFiles == {"a.txt", "b.pdf"}

\* Path.resolve()
Resolve(e) == IF e = "l.txt" THEN "a.txt" ELSE e

\* Path.suffix, then str.lower()
Suffix(e) ==
  CASE e \in {"a.txt", "l.txt"} -> ".txt"
    [] e \in {"b.pdf", "s.pdf"} -> ".pdf"
    [] OTHER -> ".md"

Lower(ext) ==
  CASE ext = ".PDF" -> ".pdf"
    [] ext = ".DOCX" -> ".docx"
    [] ext = ".TXT" -> ".txt"
    [] OTHER -> ext

\* Path.stat().st_size
Size(e) == IF e = "s.pdf" THEN 500 ELSE 2048

\* what a part of a file yields to its extractor: a PDF page gives text, no
\* text, or makes page.extract_text raise; a DOCX paragraph has text or none
PartKinds == {"text", "blank", "error"}

RECURSIVE SeqsUpTo(_, _)
SeqsUpTo(S, n) ==
  IF n = 0 THEN {<<>>}
  ELSE LET shorter == SeqsUpTo(S, n - 1) IN
       shorter \cup {Append(s, x) : s \in {t \in shorter : Len(t) = n - 1}, x \in S}

\* a file as the extractors see it
FileStates ==
  [mtime : 1..MaxMtime, readable : BOOLEAN, wellformed : BOOLEAN,
   parts : SeqsUpTo(PartKinds, MaxParts)]

\* the states the files of the indexed directory take in the indexing runs:
\* a file with text, or one that cannot be opened
Fixtures ==
  {f \in FileStates : f.parts = <<"text">> /\ f.readable = f.wellformed}

VARIABLES
  disk,       \* the files under the root: real path -> its state
  nmod,       \* modifications of the directory so far
  store,      \* the index directory: the committed segments (the TOC)
  pc,         \* where index_files is: idle, extract, write, done
  files,      \* index_files: the files to index
  pending,    \* futures of the run that have not completed
  docs,       \* index_files: docs
  success,
  failed,
  processed,
  writer,     \* the open writer: deletions and documents not yet committed
  ret,        \* what the last run returned
  callback,   \* index_files: whether a progress_callback was given
  progress,   \* the values the progress_callback was called with, in order
  run,        \* the run's dealings with the store: the store it started
              \* from, and the create_in calls, writers, commits and
              \* documents committed so far
  preRun,     \* the committed documents when the run was started
  reader,     \* what a searcher opened during the run saw, and when
  xin,        \* extractor under test: its input file
  xout,       \* extractor under test: its outcome
  sindex,     \* the documents the searcher reads, in document-number order
  today,      \* date.today(), in days since 1970-01-01
  call,       \* the query function called and its arguments
  out,        \* what the call returned and the queries it sent to the store
  cache,      \* the two lru_cache tables of the synonym lookup, least
              \* recently used entry first, and the lookups made so far
  cpu_count,  \* what os.cpu_count() returns on the machine
  workers     \* Config.WORKERS, the size of the extraction pool; NotLoaded
              \* before config.py is imported

ivars == <<disk, nmod, store, pc, files, pending, docs, success, failed,
           processed, writer, ret, callback, progress, run, preRun, reader>>
xvars == <<xin, xout>>
qvars == <<sindex, today, call, out, cache>>
cvars == <<cpu_count, workers>>
vars == <<ivars, xvars, qvars, cvars>>

(***************************************************************************)
(* core/indexer.py: the extractors                                         *)
(***************************************************************************)
RECURSIVE CountText(_)
CountText(s) ==
  IF s = <<>> THEN 0
  ELSE (IF Head(s) = "text" THEN 1 ELSE 0) + CountText(Tail(s))

\* f: [ext, size, mtime, readable, wellformed, parts]
extract_pdf_text(f) ==
  IF f.size < PDF_MIN_SIZE THEN Return(None)
  ELSE IF ~f.readable \/ ~f.wellformed THEN Return(None)   \* except Exception
  ELSE LET pages == SubSeq(f.parts, 1, Min(Len(f.parts), PDF_MAX_PAGES))
           full_text == CountText(pages)   \* pages that raise or give no text are skipped
       IN  IF full_text > 0 THEN Return(Str(full_text, f.mtime)) ELSE Return(None)

extract_docx_text(f) ==
  IF ~f.readable \/ ~f.wellformed THEN Return(Str(0, f.mtime))   \* except: return ""
  ELSE Return(Str(CountText(f.parts), f.mtime))

\* the .txt branch: open() is not guarded; undecodable bytes are ignored
extract_text_txt(f) ==
  IF ~f.readable THEN Raise ELSE Return(Str(Len(f.parts), f.mtime))

_extract_text(f) ==
  LET ext == Lower(f.ext) IN
  CASE ext = ".pdf" -> extract_pdf_text(f)
    [] ext = ".docx" -> extract_docx_text(f)
    [] ext = ".txt" -> extract_text_txt(f)
    [] OTHER -> Return(None)

(***************************************************************************)
(* The index store.  create_in clears the files of an existing index and   *)
(* writes a table of contents with an empty list of segments; open_dir     *)
(* reads the last committed table of contents.                             *)
(***************************************************************************)
\* the documents of the committed segments are a bag: document -> copies
EmptyBag == [d \in {} |-> 0]
BagAdd(b, d) ==
  IF d \in DOMAIN b THEN [b EXCEPT ![d] = @ + 1]
  ELSE [x \in DOMAIN b \cup {d} |-> IF x = d THEN 1 ELSE b[x]]

RECURSIVE BagAddAll(_, _)
BagAddAll(b, s) ==
  IF s = <<>> THEN b ELSE BagAddAll(BagAdd(b, Head(s)), Tail(s))

NoStore == [exists |-> FALSE, docs |-> EmptyBag]
create_in == [exists |-> TRUE, docs |-> EmptyBag]
open_dir(st) == st

\* FileIndexer.create_or_open_index: makes the directory, then create_in
create_or_open_index(st) == create_in

\* FileIndexer.get_index: what the searching side opens
get_index(st) ==
  IF st.exists THEN open_dir(st) ELSE create_in

NoWriter == [deleted |-> {}, added |-> <<>>]

\* writer.update_document: the documents of the committed segments holding
\* the same value of the unique field (path) are deleted, then the document
\* is added to the segment being written.  The search for the unique term
\* reads the committed segments only: a document added through the same
\* writer and not yet committed is not replaced.  A field given as None is
\* left out of the document.
update_document(w, committed, doc) ==
  [deleted |-> w.deleted \cup {d \in DOMAIN committed : d.path = doc.path},
   added |-> Append(w.added, doc)]

\* writer.commit, at the exit of the with block
commit(st, w) ==
  [st EXCEPT !.docs =
     BagAddAll([d \in DOMAIN st.docs \ w.deleted |-> st.docs[d]], w.added)]

(***************************************************************************)
(* core/indexer.py: FileIndexer.index_files                                *)
(***************************************************************************)
FileOf(e) ==
  [ext |-> Suffix(e), size |-> Size(e), mtime |-> disk[Resolve(e)].mtime,
   readable |-> disk[Resolve(e)].readable,
   wellformed |-> disk[Resolve(e)].wellformed,
   parts |-> disk[Resolve(e)].parts]

_get_files_to_indexAnySize(directory) ==
  {e \in directory : Lower(Suffix(e)) \in SUPPORTED_EXTENSIONS}

_get_files_to_index(directory) ==
  {e \in directory : Lower(Suffix(e)) \in SUPPORTED_EXTENSIONS
                     /\ Size(e) >= PDF_MIN_SIZE}

NoDoc == [path |-> "", filename |-> "", content |-> None, last_modified |-> 0]

\* process_file: the document of a file, or NoDoc (Python's None) when
\* anything in it raised
process_file(e) ==
  LET content == _extract_text(FileOf(e)) IN
  IF content.raised THEN NoDoc
  ELSE [path |-> Resolve(e), filename |-> e, content |-> content.val,
        last_modified |-> FileOf(e).mtime]

NoReader == [phase |-> "none", view |-> EmptyBag]

\* the files of the directory change between two runs
Modify(p, f) ==
  /\ pc \in {"idle", "done"}
  /\ nmod < MaxMods
  /\ f # disk[p]
  /\ disk' = [disk EXCEPT ![p] = f]
  /\ nmod' = nmod + 1
  /\ pc' = "idle"
  /\ UNCHANGED <<store, files, pending, docs, success, failed, processed,
                 writer, ret, callback, progress, run, preRun, reader>>
  /\ UNCHANGED <<xvars, qvars, cvars>>

\* what can go wrong in create_or_open_index: index_dir.mkdir raises (the
\* directory is missing and cannot be made), or index.create_in raises
StoreFaults == {"none", "mkdir", "create_in"}

\* the store a failed create_or_open_index can leave behind: mkdir changes
\* nothing; create_in fails before it touched the directory, or after it
\* removed the files of the index it found there
failed_create(st, fault) ==
  IF fault = "mkdir" THEN {st} ELSE {st, NoStore}

NoRun ==
  [directory |-> {}, store0 |-> NoStore, creates |-> 0, writers |-> 0,
   commits |-> 0, written |-> 0, raised |-> FALSE]

submittedRegardless(files_, fault) == files_

\* line 145: the futures submitted to the pool; the line is not reached when
\* line 121 raised
submitted(files_, fault) == IF fault = "none" THEN files_ ELSE {}

\* line 155: int(processed / total_files * 100); for the totals of the model
\* the float quotient times 100, truncated, is the integer quotient
progress_valueBeforeIncrement(processed_, total_files) ==
  ((processed_ - 1) * 100) \div total_files

progress_value(processed_, total_files) ==
  (processed_ * 100) \div total_files

\* lines 116-124 and 141-146: the files, the store, the tasks submitted
IndexStart(directory, progress_callback, fault) ==
  /\ pc \in {"idle", "done"}
  /\ fault = "mkdir" => ~store.exists
  /\ files' = _get_files_to_index(directory)
  /\ docs' = <<>>
  /\ success' = 0
  /\ failed' = 0
  /\ processed' = 0
  /\ writer' = NoWriter
  /\ reader' = NoReader
  /\ preRun' = store.docs
  /\ callback' = progress_callback
  /\ progress' = <<>>
  /\ IF files' = {}
       THEN /\ fault = "none"
            /\ ret' = <<0, 0>>
            /\ pc' = "done"
            /\ pending' = {}
            /\ store' = store
            /\ run' = [NoRun EXCEPT !.directory = directory, !.store0 = store]
       ELSE IF fault = "none"
       THEN /\ store' = create_or_open_index(store)
            /\ pending' = submitted(files', fault)
            /\ pc' = "extract"
            /\ ret' = <<>>
            /\ run' = [NoRun EXCEPT !.directory = directory, !.store0 = store,
                                    !.creates = 1]
       ELSE \* line 121 raises, and index_files with it
            /\ store' \in failed_create(store, fault)
            /\ pending' = submitted(files', fault)
            /\ pc' = "done"
            /\ ret' = <<>>
            /\ run' = [NoRun EXCEPT !.directory = directory, !.store0 = store,
                                    !.creates = 1, !.raised = TRUE]
  /\ UNCHANGED <<disk, nmod>>
  /\ UNCHANGED <<xvars, qvars, cvars>>

TaskCompleteLostUpdate(e) ==
  /\ pc = "extract"
  /\ e \in pending
  /\ pending' = pending \ {e}
  /\ docs' = IF process_file(e) # NoDoc THEN Append(docs, process_file(e)) ELSE docs
  /\ success' = success
  /\ failed' = IF process_file(e) # NoDoc THEN failed ELSE failed + 1
  /\ processed' = processed + 1
  /\ UNCHANGED <<disk, nmod, store, pc, files, writer, ret, callback, progress,
                 run, preRun, reader>>
  /\ UNCHANGED <<xvars, qvars, cvars>>

WriterOpenEarly ==
  /\ pc = "extract"
  /\ pc' = "write"
  /\ writer' = NoWriter
  /\ run' = [run EXCEPT !.writers = @ + 1]
  /\ UNCHANGED <<disk, nmod, store, files, pending, docs, success, failed,
                 processed, ret, callback, progress, preRun, reader>>
  /\ UNCHANGED <<xvars, qvars, cvars>>

\* lines 147-157: one future completes (as_completed: in any order)
TaskComplete(e) ==
  /\ pc = "extract"
  /\ e \in pending
  /\ pending' = pending \ {e}
  /\ LET doc == process_file(e) IN
       IF doc # NoDoc
         THEN /\ docs' = Append(docs, doc)
              /\ success' = success + 1
              /\ failed' = failed
         ELSE /\ docs' = docs
              /\ success' = success
              /\ failed' = failed + 1
  /\ processed' = processed + 1
  /\ progress' = IF callback
                   THEN Append(progress,
                               progress_value(processed', Cardinality(files)))
                   ELSE progress
  /\ UNCHANGED <<disk, nmod, store, pc, files, writer, ret, callback, run,
                 preRun, reader>>
  /\ UNCHANGED <<xvars, qvars, cvars>>

\* line 160: all futures are done and the pool is shut down; the writer opens
WriterOpen ==
  /\ pc = "extract"
  /\ pending = {}
  /\ pc' = "write"
  /\ writer' = NoWriter
  /\ run' = [run EXCEPT !.writers = @ + 1]
  /\ UNCHANGED <<disk, nmod, store, files, pending, docs, success, failed,
                 processed, ret, callback, progress, preRun, reader>>
  /\ UNCHANGED <<xvars, qvars, cvars>>

\* lines 161-162: the next document of docs is handed to the writer
WriterUpdate ==
  /\ pc = "write"
  /\ Len(writer.added) < Len(docs)
  /\ writer' = update_document(writer, store.docs, docs[Len(writer.added) + 1])
  /\ UNCHANGED <<disk, nmod, store, pc, files, pending, docs, success, failed,
                 processed, ret, callback, progress, run, preRun, reader>>
  /\ UNCHANGED <<xvars, qvars, cvars>>

\* the exit of the with block commits; lines 164-172: the run returns
WriterCommit ==
  /\ pc = "write"
  /\ Len(writer.added) = Len(docs)
  /\ store' = commit(store, writer)
  /\ writer' = NoWriter
  /\ ret' = <<success, failed>>
  /\ pc' = "done"
  /\ run' = [run EXCEPT !.commits = @ + 1, !.written = Len(writer.added)]
  /\ UNCHANGED <<disk, nmod, files, pending, docs, success, failed, processed,
                 callback, progress, preRun, reader>>
  /\ UNCHANGED <<xvars, qvars, cvars>>

\* FileSearchApp: a search opens a searcher on the index while a run is going
ReaderOpen ==
  /\ pc \in {"extract", "write"}
  /\ reader.phase = "none"
  /\ reader' = [phase |-> pc, view |-> get_index(store).docs]
  /\ UNCHANGED <<disk, nmod, store, pc, files, pending, docs, success, failed,
                 processed, writer, ret, callback, progress, run, preRun>>
  /\ UNCHANGED <<xvars, qvars, cvars>>

\* the directories index_files is called on: an empty one, one without an
\* eligible file, and ones with one, two and three eligible files
Directories ==
  {{}, {"s.pdf", "n.md"}, {"a.txt"}, {"b.pdf", "s.pdf"}, {"a.txt", "l.txt"},
   {"a.txt", "b.pdf", "n.md"}, Entries}

InitDisk ==
  [p \in RealFiles |-> [mtime |-> 1, readable |-> TRUE, wellformed |-> TRUE,
                        parts |-> <<"text">>]]

NoFile ==
  [ext |-> ".md", size |-> 0, mtime |-> 1, readable |-> FALSE,
   wellformed |-> FALSE, parts |-> <<>>]

\* config.py has been imported on a machine of eight CPUs
InitConfigLoaded ==
  /\ cpu_count = 8
  /\ workers = WORKERS(cpu_count)

InitIndex ==
  /\ disk = InitDisk
  /\ nmod = 0
  /\ store = NoStore
  /\ pc = "idle"
  /\ files = {}
  /\ pending = {}
  /\ docs = <<>>
  /\ success = 0
  /\ failed = 0
  /\ processed = 0
  /\ writer = NoWriter
  /\ ret = <<>>
  /\ callback = FALSE
  /\ progress = <<>>
  /\ run = NoRun
  /\ preRun = EmptyBag
  /\ reader = NoReader

NextIndex ==
  \/ \E p \in RealFiles, f \in Fixtures : Modify(p, f)
  \/ \E directory \in Directories, progress_callback \in BOOLEAN,
        fault \in StoreFaults :
        IndexStart(directory, progress_callback, fault)
  \/ \E e \in Entries : TaskComplete(e)
  \/ WriterOpen
  \/ WriterUpdate
  \/ WriterCommit
  \/ ReaderOpen

NotRun == [raised |-> FALSE, val |-> [kind |-> "notrun", n |-> 0, ver |-> 0]]

NoCall == [fn |-> "none"]
NoCache == [outer |-> <<>>, inner |-> <<>>, history |-> <<>>]
NoOut == [result |-> <<>>, phases |-> <<>>, log |-> <<>>, raised |-> FALSE]

InitQueryIdle ==
  /\ sindex = <<>>
  /\ today = 1
  /\ cache = NoCache
  /\ call = NoCall
  /\ out = NoOut

InitIndexSpec ==
  /\ InitIndex
  /\ InitConfigLoaded
  /\ xin = NoFile
  /\ xout = NotRun
  /\ InitQueryIdle

SpecIndex == InitIndexSpec /\ [][NextIndex]_vars

(***************************************************************************)
(* The extractor on its own: _extract_text applied to any file.            *)
(***************************************************************************)
Extensions == {".pdf", ".PDF", ".docx", ".txt", ".md"}

ExtractCall ==
  /\ xout = NotRun
  /\ xout' = _extract_text(xin)
  /\ UNCHANGED <<xin, ivars, qvars, cvars>>

InitExtract ==
  /\ InitIndex
  /\ InitConfigLoaded
  /\ xin \in {[ext |-> x, size |-> z, mtime |-> f.mtime, readable |-> f.readable,
                wellformed |-> f.wellformed, parts |-> f.parts] :
                 x \in Extensions, z \in {500, 2048}, f \in FileStates}
  /\ xout = NotRun
  /\ InitQueryIdle

NextExtract == ExtractCall

SpecExtract == InitExtract /\ [][NextExtract]_vars

(***************************************************************************)
(* Claims about the indexing run                                           *)
(***************************************************************************)
\* a run that got past line 121
Running == files # {} /\ ~run.raised

Paths(fs) == {Resolve(e) : e \in fs}
Indexed == DOMAIN store.docs

\* the files of the batch whose extraction returns null, and returns text
NullFiles == {e \in files : _extract_text(FileOf(e)) = Return(None)}
TextFiles ==
  {e \in files : LET r == _extract_text(FileOf(e)) IN
                 ~r.raised /\ r.val.kind = "str"}

\* the last document of the run's docs with the path of d
LastOfPath(d) ==
  LET idx == {i \in DOMAIN docs : docs[i].path = d.path} IN
  docs[CHOOSE i \in idx : \A j \in idx : j <= i]

\* C1: a run over K files that yield text and one PDF whose extraction
\* yields null returns succeeded = K and failed = 1, the null-extraction
\* file is not in the index and the K valid documents are.
C1_FailureIsolation ==
  (/\ pc = "done"
   /\ Cardinality(NullFiles) = 1
   /\ \A e \in NullFiles : Lower(Suffix(e)) = ".pdf"
   /\ NullFiles \cup TextFiles = files)
  => /\ ret = <<Cardinality(TextFiles), 1>>
     /\ \A d \in Indexed : d.path \notin Paths(NullFiles)
     /\ \A e \in TextFiles : process_file(e) \in Indexed

\* C2: when a run has returned, every document committed before it whose
\* path is not in the run's batch is still in the index.
C2_EarlierDocumentsKept ==
  pc = "done" =>
    \A d \in DOMAIN preRun : d.path \notin Paths(files) => d \in Indexed

\* C3: a reader that opened the index while a run was in progress saw the
\* document set from before the run or the one the run committed.
C3_ReaderSeesPreOrPost ==
  (pc = "done" /\ reader.phase # "none")
  => (reader.view = preRun \/ reader.view = store.docs)

\* C4: the index holds at most one document per path, and after a run that
\* document is the one of the most recent indexing of the path.
C4_OneDocumentPerPath ==
  /\ \A d \in Indexed : store.docs[d] = 1
  /\ \A d1, d2 \in Indexed : d1.path = d2.path => d1 = d2
  /\ (pc = "done" /\ Running) => \A d \in Indexed : d = LastOfPath(d)

\* C5: for a file with a supported extension _extract_text does not raise:
\* it returns a string or null.
C5_ExtractNeverRaises ==
  (xout # NotRun /\ Lower(xin.ext) \in SUPPORTED_EXTENSIONS)
  => (~xout.raised /\ xout.val.kind \in {"str", "None"})

\* C11: with a progress callback the values passed to it are non-decreasing
\* under every completion order, one per completed task, and the last value
\* passed, once all tasks have completed, is 100.
C11_ProgressMonotone ==
  (callback /\ Running)
  => /\ Len(progress) = processed
     /\ \A i, j \in DOMAIN progress : i <= j => progress[i] <= progress[j]
     /\ pending = {} => progress[Len(progress)] = 100

C11_ThreeFilesReported ==
  /\ callback
  /\ pc = "done"
  /\ progress = <<33, 66, 100>>

\* no entry of the directory has a supported extension and the minimum size
NoEligibleFile(directory) ==
  \A e \in directory :
     Suffix(e) \notin {".pdf", ".docx", ".txt", ".PDF", ".DOCX", ".TXT"}
     \/ Size(e) < 1024

\* C14: a run over a directory without an eligible file returns (0, 0) and
\* leaves the store as it was: no create_in, no writer, no commit.
C14_NoEligibleFileNoMutation ==
  (pc = "done" /\ NoEligibleFile(run.directory))
  => /\ ret = <<0, 0>>
     /\ store = run.store0
     /\ run.creates = 0 /\ run.writers = 0 /\ run.commits = 0

C14_IndexKeptByEmptyRun ==
  /\ pc = "done"
  /\ run.directory = {"s.pdf", "n.md"}
  /\ ret = <<0, 0>>
  /\ store.docs # EmptyBag

\* C15: when opening or creating the store fails, index_files raises after
\* the one attempt, and by then no task was submitted, the callback was not
\* called and no document was written.
C15_StoreFailureBeforeAnyWork ==
  run.raised
  => /\ pc \in {"done", "idle"} /\ ret = <<>>
     /\ run.creates = 1
     /\ pending = {} /\ processed = 0 /\ docs = <<>>
     /\ progress = <<>>
     /\ run.writers = 0 /\ run.commits = 0 /\ run.written = 0
     /\ DOMAIN store.docs \subseteq DOMAIN run.store0.docs

C15_FailureOverExistingIndex ==
  /\ run.raised
  /\ callback
  /\ Cardinality(files) = 3
  /\ run.store0.docs # EmptyBag

\* C18: the counters lose no update under any completion order: every
\* completed task adds one to processed and to exactly one of success and
\* failed; at the return processed = N, success + failed = N and the commit
\* has written success documents.
C18_CountersExact ==
  Running
  => /\ processed = Cardinality(files) - Cardinality(pending)
     /\ success + failed = processed
     /\ Len(docs) = success
     /\ pc = "done" => /\ processed = Cardinality(files)
                       /\ ret = <<success, failed>>
                       /\ ret[1] + ret[2] = Cardinality(files)
                       /\ run.written = success

C18_MixedRunCounted ==
  /\ pc = "done"
  /\ Cardinality(files) = 3
  /\ success = 1 /\ failed = 2
  /\ run.written = 1

Chars == {"a", "B", " "}

LowerChar(c) == IF c = "B" THEN "b" ELSE c

\* str.lower
str_lower(s) == [i \in DOMAIN s |-> LowerChar(s[i])]

RECURSIVE LStrip(_)
LStrip(s) == IF s # <<>> /\ Head(s) = " " THEN LStrip(Tail(s)) ELSE s

RECURSIVE RStrip(_)
RStrip(s) ==
  IF s # <<>> /\ s[Len(s)] = " " THEN RStrip(SubSeq(s, 1, Len(s) - 1)) ELSE s

\* str.strip
str_strip(s) == RStrip(LStrip(s))

\* a in b (and b.startswith(a), which it covers)
Contains(b, a) ==
  \E i \in 0..(Len(b) - Len(a)) : SubSeq(b, i + 1, i + Len(a)) = a

StartsWith(b, a) == Len(a) <= Len(b) /\ SubSeq(b, 1, Len(a)) = a

RECURSIVE Split(_, _)
Split(s, cur) ==
  IF s = <<>> THEN (IF cur = <<>> THEN <<>> ELSE <<cur>>)
  ELSE IF Head(s) = " "
         THEN (IF cur = <<>> THEN <<>> ELSE <<cur>>) \o Split(Tail(s), <<>>)
         ELSE Split(Tail(s), Append(cur, Head(s)))

\* whoosh StandardAnalyzer: tokens of word characters, lower-cased, those
\* shorter than two characters dropped (no stop word is spelled in Chars)
StandardAnalyzer(s) ==
  SelectSeq(Split(str_lower(s), <<>>), LAMBDA t : Len(t) >= 2)

Min3(a, b, c) == Min(a, Min(b, c))

\* the edit distance: insertions, deletions, substitutions
RECURSIVE Levenshtein(_, _)
Levenshtein(a, b) ==
  IF a = <<>> THEN Len(b)
  ELSE IF b = <<>> THEN Len(a)
  ELSE IF Head(a) = Head(b) THEN Levenshtein(Tail(a), Tail(b))
  ELSE 1 + Min3(Levenshtein(Tail(a), b), Levenshtein(a, Tail(b)),
                Levenshtein(Tail(a), Tail(b)))

(***************************************************************************)
(* whoosh.query and searcher.search.  A document of the searcher is        *)
(* [path, filename, terms, last_modified]: terms are the terms of its      *)
(* content field as indexed (lower-cased, stemmed, stop words dropped).    *)
(***************************************************************************)
Term(field, text) == [op |-> "Term", field |-> field, text |-> text]
Or(subs) == [op |-> "Or", subs |-> subs]
And(subs) == [op |-> "And", subs |-> subs]
NullQuery == [op |-> "Null"]
\* both ends inclusive (startexcl and endexcl default to False)
DateRange(field, start, end) ==
  [op |-> "DateRange", field |-> field, start |-> start, end |-> end]
\* "*part*"
Wildcard(field, part) == [op |-> "Wildcard", field |-> field, part |-> part]
\* FuzzyTerm(field, text, maxdist): prefixlength keeps its default, 1
FuzzyTerm(field, text, maxdist) ==
  [op |-> "FuzzyTerm", field |-> field, text |-> text, maxdist |-> maxdist,
   prefixlength |-> 1]

Range(f) == {f[i] : i \in DOMAIN f}

FieldTerms(d, field) ==
  IF field = "content" THEN d.terms ELSE Range(StandardAnalyzer(d.filename))

RECURSIVE Matches(_, _)
Matches(q, d) ==
  CASE q.op = "Term" -> q.text \in FieldTerms(d, q.field)
    [] q.op = "Or" -> \E i \in DOMAIN q.subs : Matches(q.subs[i], d)
    [] q.op = "And" -> \A i \in DOMAIN q.subs : Matches(q.subs[i], d)
    [] q.op = "DateRange" ->
         q.start <= d.last_modified /\ d.last_modified <= q.end
    [] q.op = "Wildcard" ->
         \E t \in FieldTerms(d, q.field) : Contains(t, q.part)
    [] q.op = "FuzzyTerm" ->
         \E t \in FieldTerms(d, q.field) :
            /\ StartsWith(t, SubSeq(q.text, 1, Min(q.prefixlength, Len(q.text))))
            /\ Levenshtein(t, q.text) <= q.maxdist
    [] OTHER -> FALSE

\* searcher.search(query, limit): the first limit matching documents (the
\* ranking is the store's; document order stands for it)
searcher_search(ix, q, limit) ==
  LET hits == SelectSeq(ix, LAMBDA d : Matches(q, d)) IN
  SubSeq(hits, 1, Min(limit, Len(hits)))

(***************************************************************************)
(* core/searcher.py: keyword search.  A query string is the sequence of    *)
(* its blank-separated tokens.  The words of the model: car, cars (stem    *)
(* car), the (a stop word), a comma, and an inflected Russian noun written *)
(* in Latin letters here, mashiny, whose lemma is mashina.                 *)
(***************************************************************************)
QueryWords == {"car", "Cars", "the", ",", "mashiny"}
RussianWords == {"mashiny", "mashina", "avtomobil", "avto"}
PUNCTUATION == {","}
ANALYZER_STOP_WORDS == {"the"}

word_lower(w) == IF w = "Cars" THEN "cars" ELSE w

\* the stemming of the content field's StemmingAnalyzer
stem(w) == IF w = "cars" THEN "car" ELSE w

\* lines 46-54, on one word
detect_language(word) ==
  IF word \in RussianWords THEN "ru"
  ELSE IF word \in PUNCTUATION THEN "unknown"
  ELSE "en"

\* detect_language(query_str): a string with a blank in it matches neither
\* pattern
detect_query_language(query_str) ==
  IF Len(query_str) = 1 THEN detect_language(query_str[1]) ELSE "unknown"

lemmatize_ru(word) == IF word = "mashiny" THEN "mashina" ELSE word

\* ru_synonyms: sg.is_in_dictionary, sg.get_list
ru_thesaurus(lemma) ==
  IF lemma = "mashina" THEN <<"avtomobil", "avto">> ELSE <<>>

\* WordNet: the lemma names of the synsets of a word
wordnet(word) ==
  IF word \in {"car", "cars"}
    THEN <<"car", "auto", "automobile", "machine", "motorcar", "wagon">>
    ELSE <<>>

\* list(set): the order of the elements of a Python set of strings is not
\* determined; the orders taken here are rotations of the listing
Rotate(s, k) ==
  [i \in DOMAIN s |-> s[((i - 1 + k) % Len(s)) + 1]]

\* lines 56-77; order stands for the iteration order of the set
get_synonyms(word, order) ==
  LET lang == detect_language(word) IN
  IF lang = "ru"
    THEN LET lemma == lemmatize_ru(word) IN
         IF ru_thesaurus(lemma) # <<>> THEN ru_thesaurus(lemma) ELSE <<lemma>>
  ELSE IF lang = "en"
    THEN IF wordnet(word) # <<>> THEN Rotate(wordnet(word), order) ELSE <<word>>
  ELSE <<word>>

\* lines 78-84: get_cache_synonyms(word) in the call c; neither it nor
\* get_synonyms has an except clause, so that what the lemmatizer, the
\* thesaurus or WordNet raises (fault "synonyms") is raised to the caller
get_cache_synonyms(word, c) ==
  IF c.fault = "synonyms" THEN [raised |-> TRUE, val |-> <<>>]
  ELSE [raised |-> FALSE, val |-> get_synonyms(word, c.order)]

\* parser.parse: QueryParser("content", schema, group=OrGroup); the text is
\* analysed as the content field is
parse(query_str) ==
  LET kept == SelectSeq(query_str,
                LAMBDA w : w \notin PUNCTUATION
                           /\ word_lower(w) \notin ANALYZER_STOP_WORDS)
      terms == [i \in DOMAIN kept |-> Term("content", stem(word_lower(kept[i])))]
  IN  IF terms = <<>> THEN NullQuery
      ELSE IF Len(terms) = 1 THEN terms[1]
      ELSE Or(terms)

\* lines 102-112: both tokenizers split the model's strings at the blanks
tokenize_text(text, lang) == [i \in DOMAIN text |-> word_lower(text[i])]

Hits(results) ==
  [i \in DOMAIN results |->
     [path |-> results[i].path, last_modified |-> results[i].last_modified]]

\* lines 123-134: the direct phase; raised when the except branch was taken
direct_phase(ix, c) ==
  IF c.fault = "parse" THEN [raised |-> TRUE, hits |-> <<>>, log |-> <<>>]
  ELSE LET query == parse(c.query_str) IN
       IF c.fault = "search"
         THEN [raised |-> TRUE, hits |-> <<>>, log |-> <<query>>]
         ELSE [raised |-> FALSE, hits |-> searcher_search(ix, query, c.limit),
               log |-> <<query>>]

synonym_clauseAll(synonyms) ==
  Or([i \in 1..Len(synonyms) |-> Term("content", synonyms[i])])

\* lines 150-151
synonym_clause(synonyms) ==
  Or([i \in 1..Min(Len(synonyms), MAX_SYNONYMS) |-> Term("content", synonyms[i])])

\* lines 141-145
query_words(c) ==
  LET tokens == tokenize_text(c.query_str, detect_query_language(c.query_str)) IN
  SelectSeq(tokens, LAMBDA w : w \notin c.stop_words /\ w \notin PUNCTUATION)

\* lines 146-151: get_synonyms never returns an empty list
synonym_queriesFirstOnly(words, c) ==
  <<synonym_clause(get_cache_synonyms(words[1], c).val)>>

synonym_queries(words, c) ==
  [i \in DOMAIN words |-> synonym_clause(get_cache_synonyms(words[i], c).val)]

\* lines 137-163: the phase with synonyms
synonym_phase(ix, c) ==
  LET words == query_words(c) IN
  IF words = <<>> THEN [hits |-> <<>>, log |-> <<>>]
  ELSE IF \E i \in DOMAIN words : get_cache_synonyms(words[i], c).raised
    THEN [hits |-> <<>>, log |-> <<>>]
  ELSE LET combined_query == And(synonym_queries(words, c)) IN
       IF c.fault = "fallback_search"
         THEN [hits |-> <<>>, log |-> <<combined_query>>]
         ELSE [hits |-> searcher_search(ix, combined_query, c.limit),
               log |-> <<combined_query>>]

\* lines 114-163
search_index(ix, c) ==
  LET d == direct_phase(ix, c) IN
  IF d.raised
    THEN [result |-> <<>>, phases |-> <<"direct">>, log |-> d.log, raised |-> FALSE]
  ELSE IF d.hits # <<>>
    THEN [result |-> Hits(d.hits), phases |-> <<"direct">>, log |-> d.log,
          raised |-> FALSE]
  ELSE LET f == synonym_phase(ix, c) IN
       [result |-> Hits(f.hits), phases |-> <<"direct", "fallback">>,
        log |-> d.log \o f.log, raised |-> FALSE]

Faults == {"none", "parse", "search", "synonyms", "fallback_search"}

KeywordCalls ==
  [fn : {"search_index"},
   query_str : SeqsUpTo(QueryWords, MaxQueryLen) \ {<<>>},
   limit : {1, 2},
   stop_words : {{}, {"the"}},
   fault : Faults,
   order : 0..2]

SearchIndexCall(c) ==
  /\ call = NoCall
  /\ call' = c
  /\ out' = search_index(sindex, c)
  /\ UNCHANGED <<sindex, today, cache, ivars, xvars, cvars>>

KeywordDoc(p, ts) ==
  [path |-> p, filename |-> <<>>, terms |-> ts, last_modified |-> 0]

InitKeyword ==
  /\ InitIndex
  /\ InitConfigLoaded
  /\ xin = NoFile
  /\ xout = NotRun
  /\ sindex \in {<<KeywordDoc("d1", t1), KeywordDoc("d2", t2)>> :
                   t1 \in SUBSET {"car", "wagon"}, t2 \in {{}, {"wagon"}, {"avto"}}}
  /\ today = 1
  /\ cache = NoCache
  /\ call = NoCall
  /\ out = NoOut

\* one call per behaviour: the calls to choose from once a call has been made
\* are none
CallsLeft(calls) == IF call = NoCall THEN calls ELSE {}

NextKeyword == \E c \in CallsLeft(KeywordCalls) : SearchIndexCall(c)

SpecKeyword == InitKeyword /\ [][NextKeyword]_vars

(***************************************************************************)
(* Claims about keyword search                                             *)
(***************************************************************************)
PathsOf(result) == {result[i].path : i \in DOMAIN result}
DirectRaised == call.fault \in {"parse", "search"}

\* the documents holding a term of the query as the content field analyses it
DirectMatch ==
  LET ts == {stem(word_lower(w)) :
               w \in {v \in Range(call.query_str) :
                        v \notin PUNCTUATION
                        /\ word_lower(v) \notin ANALYZER_STOP_WORDS}}
  IN  {d \in Range(sindex) : d.terms \cap ts # {}}

\* the tokens left for the expansion
Words ==
  {word_lower(w) : w \in Range(call.query_str)} \ (call.stop_words \cup PUNCTUATION)

AllSynonyms(w) == Range(get_synonyms(w, call.order))
UsedSynonyms(w) ==
  LET syn == get_synonyms(w, call.order) IN
  {syn[i] : i \in 1..Min(Len(syn), MAX_SYNONYMS)}

\* the documents holding, for every token left, one of the synonyms used for it
ExpandedMatch ==
  {d \in Range(sindex) : \A w \in Words : d.terms \cap UsedSynonyms(w) # {}}

IsTopOf(result, matching, limit) ==
  /\ PathsOf(result) \subseteq {d.path : d \in matching}
  /\ Len(result) = Min(limit, Cardinality(matching))

\* C6: when the direct phase raises, the phase with synonyms is still run
\* and its hits are what search_index returns.
C6_FallbackAfterDirectException ==
  (call.fn = "search_index" /\ DirectRaised)
  => /\ out.phases = <<"direct", "fallback">>
     /\ (call.fault = "parse" /\ Words # {})
          => IsTopOf(out.result, ExpandedMatch, call.limit)

\* the order of the two phases: the query with synonyms is sent only after
\* the direct query was sent and gave no hit; a direct query with hits is
\* the only query sent and its hits are the result
C7_PhaseOrder ==
  /\ "fallback" \in Range(out.phases)
       => /\ out.phases = <<"direct", "fallback">>
          /\ ~DirectRaised
          /\ DirectMatch = {}
          /\ Len(out.log) >= 1 /\ out.log[1] = parse(call.query_str)
  /\ (~DirectRaised /\ DirectMatch # {})
       => /\ IsTopOf(out.result, DirectMatch, call.limit)
          /\ out.phases = <<"direct">>
          /\ out.log = <<parse(call.query_str)>>

\* C7 (as amended): the phases are ordered as above, and when the direct
\* query gave no hit the result is, up to limit, the documents that hold for
\* every token left one of the first MAX_SYNONYMS synonyms listed for it.
C7_FallbackOnlyAfterEmptyDirect ==
  call.fn = "search_index" =>
    /\ C7_PhaseOrder
    /\ (call.fault = "none" /\ DirectMatch = {} /\ Words # {})
         => /\ IsTopOf(out.result, ExpandedMatch, call.limit)
            /\ Len(out.log) = 2

C7_FallbackReturnsSynonymMatch ==
  /\ call.fn = "search_index"
  /\ call.fault = "none"
  /\ out.phases = <<"direct", "fallback">>
  /\ out.result # <<>>
  /\ \E d \in Range(sindex) : d.path \in PathsOf(out.result)
                              /\ d.terms \cap Words = {}

\* C7 (as claimed): ... and a document that matches only through a synonym
\* of the query term is returned by the fallback query.  Taken in its most
\* favourable case: one token, no fault, a limit that cuts nothing.
C7_EverySynonymMatchReturned ==
  call.fn = "search_index" =>
    /\ C7_PhaseOrder
    /\ (/\ call.fault = "none"
        /\ DirectMatch = {}
        /\ Cardinality(Words) = 1 /\ Len(call.query_str) = 1
        /\ call.limit >= Len(sindex))
         => \A d \in Range(sindex) :
              (\E w \in Words : d.terms \cap AllSynonyms(w) # {})
                => d.path \in PathsOf(out.result)

\* C12: a failure inside the synonym lookup does not leave the resolver: it
\* gives the one-element list of the word, and the query with synonyms is
\* still sent, with that token as its only term.
C12_LookupFailureDegrades ==
  (/\ call.fn = "search_index"
   /\ call.fault = "synonyms"
   /\ DirectMatch = {} /\ Words # {})
  => /\ \A w \in Words : ~get_cache_synonyms(w, call).raised
     /\ out.phases = <<"direct", "fallback">>
     /\ Len(out.log) = 2
     /\ IsTopOf(out.result,
                {d \in Range(sindex) : \A w \in Words : w \in d.terms},
                call.limit)

(***************************************************************************)
(* core/searcher.py: search by date.  The two relative words of the code   *)
(* are Russian (today and yesterday); they are written segodnya and vchera *)
(* here.  NoneStr is Python's None.                                        *)
(***************************************************************************)
NoneStr == "<None>"
IsoDates == {"1970-01-01", "1970-01-02", "1970-01-03", "1970-01-04", "1970-01-05"}

\* str.lower on the strings given as bounds
bound_lower(s) ==
  CASE s = "SEGODNYA" -> "segodnya"
    [] s = "Vchera" -> "vchera"
    [] s = "Today" -> "today"
    [] s = "Yesterday" -> "yesterday"
    [] OTHER -> s

ADate(day) == [kind |-> "date", day |-> day]
NoDate == [kind |-> "none", day |-> 0]
ValueError == [kind |-> "ValueError", day |-> 0]

\* datetime.strptime(s, "%Y-%m-%d").date()
strptime(s) ==
  CASE s = "1970-01-01" -> ADate(0)
    [] s = "1970-01-02" -> ADate(1)
    [] s = "1970-01-03" -> ADate(2)
    [] s = "1970-01-04" -> ADate(3)
    [] s = "1970-01-05" -> ADate(4)
    [] OTHER -> ValueError

Truthy(s) == s \notin {NoneStr, ""}

resolve_boundCaseSensitive(s, now) ==
  IF Truthy(s) /\ s = "segodnya" THEN ADate(now)
  ELSE IF Truthy(s) /\ s = "vchera" THEN ADate(now - 1)
  ELSE IF Truthy(s) THEN strptime(s)
  ELSE NoDate

\* lines 174-179 and 181-186
resolve_bound(s, now) ==
  IF Truthy(s) /\ bound_lower(s) = "segodnya" THEN ADate(now)
  ELSE IF Truthy(s) /\ bound_lower(s) = "vchera" THEN ADate(now - 1)
  ELSE IF Truthy(s) THEN strptime(s)
  ELSE NoDate

TIME_MIN == 0
TIME_MAX == TicksPerDay - 1
EPOCH == 0

\* datetime.combine
combine(day, t) == day * TicksPerDay + t

end_of_dayAtMidnight(day) == combine(day, TIME_MIN)

\* datetime.combine(d, datetime.min.time()), datetime.combine(d, datetime.max.time())
start_of_day(day) == combine(day, TIME_MIN)
end_of_day(day) == combine(day, TIME_MAX)

CaughtValueError ==
  [result |-> <<>>, phases |-> <<"ValueError">>, log |-> <<>>, raised |-> FALSE]

range_search(ix, lo, hi, limit) ==
  LET date_query == DateRange("last_modified", lo, hi) IN
  [result |-> Hits(searcher_search(ix, date_query, limit)), phases |-> <<>>,
   log |-> <<date_query>>, raised |-> FALSE]

\* lines 165-226
search_time_range(ix, c, now) ==
  LET start_date == resolve_bound(c.start_date_str, now)
      end_date == resolve_bound(c.end_date_str, now)
  IN  IF start_date = ValueError \/ end_date = ValueError THEN CaughtValueError
      ELSE IF start_date # NoDate /\ end_date # NoDate
        THEN range_search(ix, start_of_day(start_date.day),
                          end_of_day(end_date.day), c.limit)
      ELSE IF start_date # NoDate
        THEN range_search(ix, start_of_day(start_date.day), end_of_day(now), c.limit)
      ELSE IF end_date # NoDate
        THEN range_search(ix, start_of_day(EPOCH), end_of_day(end_date.day), c.limit)
      ELSE NoOut

BoundStrings ==
  {NoneStr, "", "1970-01-02", "1970-01-03", "1970-13-01",
   "today", "Yesterday", "segodnya", "SEGODNYA", "Vchera"}

TimeCalls ==
  [fn : {"search_time_range"}, start_date_str : BoundStrings,
   end_date_str : BoundStrings, limit : {1, 2}]

SearchTimeRangeCall(c) ==
  /\ call = NoCall
  /\ call' = c
  /\ out' = search_time_range(sindex, c, today)
  /\ UNCHANGED <<sindex, today, cache, ivars, xvars, cvars>>

TimeDoc(p, t) == [path |-> p, filename |-> <<>>, terms |-> {}, last_modified |-> t]

InitTime ==
  /\ InitIndex
  /\ InitConfigLoaded
  /\ xin = NoFile
  /\ xout = NotRun
  /\ sindex \in {<<TimeDoc("d1", t), TimeDoc("d2", combine(1, 1))>> :
                   t \in 0..end_of_day(MaxDay)}
  /\ today \in 1..MaxDay
  /\ cache = NoCache
  /\ call = NoCall
  /\ out = NoOut

NextTime == \E c \in CallsLeft(TimeCalls) : SearchTimeRangeCall(c)

SpecTime == InitTime /\ [][NextTime]_vars

(***************************************************************************)
(* core/searcher.py: search by file name                                   *)
(***************************************************************************)
\* lines 286-301: the filename field holds a str
_normalize_filename(filename) == str_lower(filename)

\* lines 313-317
filename_clause(part) ==
  Or(<<Wildcard("filename", part), FuzzyTerm("filename", part, 2)>>)

\* lines 326-337
post_filter(results, filename_query) ==
  LET kept == SelectSeq(results,
                LAMBDA hit :
                  LET doc_str == _normalize_filename(hit.filename) IN
                  /\ doc_str # <<>>
                  /\ (StartsWith(doc_str, filename_query)
                      \/ Contains(doc_str, filename_query)))
  IN  [i \in DOMAIN kept |->
         [path |-> kept[i].path, filename |-> _normalize_filename(kept[i].filename),
          last_modified |-> kept[i].last_modified]]

\* lines 303-338
search_by_filename(ix, c) ==
  LET filename_query == str_strip(str_lower(c.filename))
      query_parts == StandardAnalyzer(filename_query)
      queries == [i \in DOMAIN query_parts |-> filename_clause(query_parts[i])]
  IN  IF queries = <<>>   \* queries[0]: IndexError
        THEN [result |-> <<>>, phases |-> <<>>, log |-> <<>>, raised |-> TRUE]
      ELSE LET query == IF Len(queries) > 1 THEN And(queries) ELSE queries[1]
               results == searcher_search(ix, query, FILE_SEARCH_LIMIT)
           IN  [result |-> post_filter(results, filename_query), phases |-> <<>>,
                log |-> <<query>>, raised |-> FALSE]

Names == SeqsUpTo(Chars, MaxNameLen)

FilenameCalls == [fn : {"search_by_filename"}, filename : Names]

SearchByFilenameCall(c) ==
  /\ call = NoCall
  /\ call' = c
  /\ out' = search_by_filename(sindex, c)
  /\ UNCHANGED <<sindex, today, cache, ivars, xvars, cvars>>

NameDoc(p, name) == [path |-> p, filename |-> name, terms |-> {}, last_modified |-> 0]

InitFilename ==
  /\ InitIndex
  /\ InitConfigLoaded
  /\ xin = NoFile
  /\ xout = NotRun
  /\ sindex \in {<<NameDoc("d1", n), NameDoc("d2", <<"a", "B", "a">>)>> :
                   n \in Names \ {<<>>}}
  /\ today = 1
  /\ cache = NoCache
  /\ call = NoCall
  /\ out = NoOut

NextFilename == \E c \in CallsLeft(FilenameCalls) : SearchByFilenameCall(c)

SpecFilename == InitFilename /\ [][NextFilename]_vars

(***************************************************************************)
(* core/searcher.py: combined_search, keywords within a range of dates.    *)
(* params is the record of the call: query (query_str here), start_date,   *)
(* end_date and limit.                                                     *)
(***************************************************************************)
CaughtException ==
  [result |-> <<>>, phases |-> <<"Exception">>, log |-> <<>>, raised |-> FALSE]

\* lines 240-244
date_range_query(start_dt, end_dt) ==
  DateRange("last_modified", combine(start_dt.day, TIME_MIN),
            combine(end_dt.day, TIME_MAX))

combined_synonym_queryNoDate(synonym_queries_, date_query) ==
  And(synonym_queries_)

\* lines 270-271
combined_synonym_query(synonym_queries_, date_query) ==
  And(<<And(synonym_queries_), date_query>>)

\* lines 256-281: the phase with synonyms; anything raised in it is caught at
\* line 282
combined_synonym_phase(ix, c, date_query) ==
  LET words == query_words(c) IN
  IF \E i \in DOMAIN words : get_cache_synonyms(words[i], c).raised
    THEN [hits |-> <<>>, log |-> <<>>]
  ELSE IF words = <<>> THEN [hits |-> <<>>, log |-> <<>>]
  ELSE LET q == combined_synonym_query(synonym_queries(words, c), date_query) IN
       IF c.fault = "fallback_search" THEN [hits |-> <<>>, log |-> <<q>>]
       ELSE [hits |-> searcher_search(ix, q, c.limit), log |-> <<q>>]

\* lines 228-284
combined_search(ix, c) ==
  LET start_dt == strptime(c.start_date)
      end_dt == strptime(c.end_date)
  IN  IF start_dt = ValueError \/ end_dt = ValueError \/ c.fault = "parse"
        THEN CaughtException
      ELSE
        LET date_query == date_range_query(start_dt, end_dt)
            combined_query == And(<<parse(c.query_str), date_query>>)
            results == searcher_search(ix, combined_query, c.limit)
        IN  IF c.fault = "search"
              THEN [CaughtException EXCEPT !.phases = <<"direct">>,
                                           !.log = <<combined_query>>]
            ELSE IF results # <<>>
              THEN [result |-> Hits(results), phases |-> <<"direct">>,
                    log |-> <<combined_query>>, raised |-> FALSE]
            ELSE LET f == combined_synonym_phase(ix, c, date_query) IN
                 [result |-> Hits(f.hits), phases |-> <<"direct", "fallback">>,
                  log |-> <<combined_query>> \o f.log, raised |-> FALSE]

CombinedCalls ==
  [fn : {"combined_search"},
   query_str : SeqsUpTo(QueryWords, MaxQueryLen) \ {<<>>},
   start_date : {"1970-01-02", "1970-13-01"},
   end_date : {"1970-01-03", NoneStr},
   limit : {1, 2},
   stop_words : {{}},
   fault : Faults,
   order : 0..1]

CombinedSearchCall(c) ==
  /\ call = NoCall
  /\ call' = c
  /\ out' = combined_search(sindex, c)
  /\ UNCHANGED <<sindex, today, cache, ivars, xvars, cvars>>

CombinedDoc(p, ts, t) ==
  [path |-> p, filename |-> <<>>, terms |-> ts, last_modified |-> t]

\* the instants around the two ends of the range 1970-01-02 .. 1970-01-03
EdgeInstants ==
  {start_of_day(1) - 1, start_of_day(1), end_of_day(2), end_of_day(2) + 1}

\* a document holding the word car and one holding its synonym auto
InitCombined ==
  /\ InitIndex
  /\ InitConfigLoaded
  /\ xin = NoFile
  /\ xout = NotRun
  /\ sindex \in {<<CombinedDoc("d1", {"car"}, t1), CombinedDoc("d2", {"auto"}, t2)>> :
                   t1 \in EdgeInstants, t2 \in EdgeInstants}
  /\ today = 1
  /\ cache = NoCache
  /\ call = NoCall
  /\ out = NoOut

NextCombined ==
  \/ \E c \in CallsLeft(CombinedCalls) : CombinedSearchCall(c)
  \/ \E c \in CallsLeft(KeywordCalls) : SearchIndexCall(c)

SpecCombined == InitCombined /\ [][NextCombined]_vars

(***************************************************************************)
(* Claims about the combined search and the query with synonyms            *)
(***************************************************************************)
\* the range of dates of the call
CallRange ==
  [lo |-> strptime(call.start_date).day * TicksPerDay,
   hi |-> strptime(call.end_date).day * TicksPerDay + (TicksPerDay - 1)]

\* C16: every hit of combined_search, from the direct query or from the
\* query with synonyms, was last modified within the days start_date to
\* end_date: both queries carry the same clause on last_modified.
C16_HitsWithinDateRange ==
  call.fn = "combined_search"
  => /\ \A i \in DOMAIN out.result :
          /\ CallRange.lo <= out.result[i].last_modified
          /\ out.result[i].last_modified <= CallRange.hi
          /\ \E d \in Range(sindex) :
                d.path = out.result[i].path
                /\ d.last_modified = out.result[i].last_modified
     /\ \A k \in DOMAIN out.log :
          /\ out.log[k].op = "And"
          /\ Len(out.log[k].subs) = 2
          /\ out.log[k].subs[2] =
               [op |-> "DateRange", field |-> "last_modified",
                start |-> CallRange.lo, end |-> CallRange.hi]

\* the direct term is out of the range, its synonym is in it
C16_FallbackHitInRange ==
  /\ call.fn = "combined_search"
  /\ call.query_str = <<"car">>
  /\ out.phases = <<"direct", "fallback">>
  /\ PathsOf(out.result) = {"d2"}
  /\ \E d \in Range(sindex) : d.path = "d1" /\ d.last_modified > CallRange.hi

\* the tokens of the query left after the stop words and the punctuation
RemainingTokens ==
  LET lowered == [i \in DOMAIN call.query_str |-> word_lower(call.query_str[i])]
  IN  SelectSeq(lowered, LAMBDA w : w \notin call.stop_words /\ w \notin PUNCTUATION)

\* the query with synonyms sent by the call, when one was sent
FallbackSent ==
  /\ call.fn \in {"search_index", "combined_search"}
  /\ out.phases = <<"direct", "fallback">>
  /\ Len(out.log) = 2

FallbackTextQuery ==
  IF call.fn = "search_index" THEN out.log[2] ELSE out.log[2].subs[1]

\* an AND over the remaining tokens of one OR clause each, of one to
\* MAX_SYNONYMS terms on the content field
AndOfBoundedOrs ==
  /\ FallbackTextQuery.op = "And"
  /\ Len(FallbackTextQuery.subs) = Len(RemainingTokens)
  /\ \A i \in DOMAIN RemainingTokens :
       LET clause == FallbackTextQuery.subs[i] IN
       /\ clause.op = "Or"
       /\ Len(clause.subs) \in 1..MAX_SYNONYMS
       /\ \A k \in DOMAIN clause.subs :
            clause.subs[k].op = "Term" /\ clause.subs[k].field = "content"

\* C20 (as amended): the query with synonyms of search_index and of
\* combined_search is the AND, over all remaining tokens, of a per-token OR
\* clause of at most MAX_SYNONYMS terms; the terms of a clause are the first
\* MAX_SYNONYMS entries of the list the lookup gives for the token, which
\* holds the token itself only when the lookup lists it.
C20_AndOfSynonymClauses ==
  FallbackSent
  => /\ AndOfBoundedOrs
     /\ \A i \in DOMAIN RemainingTokens :
          {FallbackTextQuery.subs[i].subs[k].text :
             k \in DOMAIN FallbackTextQuery.subs[i].subs}
            = UsedSynonyms(RemainingTokens[i])

C20_TwoTokenFallback ==
  /\ FallbackSent
  /\ call.fn = "combined_search"
  /\ RemainingTokens = <<"cars", "mashiny">>
  /\ Len(FallbackTextQuery.subs) = 2
  /\ Len(FallbackTextQuery.subs[1].subs) = 5

\* C20 (as claimed): moreover every per-token clause has a term for the
\* token itself.
C20_ClauseHoldsTokenItself ==
  FallbackSent
  => /\ AndOfBoundedOrs
     /\ \A i \in DOMAIN RemainingTokens :
          \E k \in DOMAIN FallbackTextQuery.subs[i].subs :
             FallbackTextQuery.subs[i].subs[k].text = RemainingTokens[i]

(***************************************************************************)
(* core/searcher.py: the memoization of the synonym lookup.                *)
(* get_cache_synonyms and get_synonyms are both wrapped in                 *)
(* functools.lru_cache(maxsize=Config.MAX_CACHE_SIZE); a table is the      *)
(* sequence of its entries, the least recently used first.                 *)
(***************************************************************************)
CacheWords == {"car", "cars", "the", "mashiny"}

\* the index of the entry of a word in a table, 0 when it has none
lru_find(entries, word) ==
  IF \E i \in DOMAIN entries : entries[i].word = word
    THEN CHOOSE i \in DOMAIN entries : entries[i].word = word
    ELSE 0

lru_hitKeepOrder(entries, i) == entries

\* a hit makes the entry the most recently used one
lru_hit(entries, i) ==
  Append(SelectSeq(entries, LAMBDA x : x # entries[i]), entries[i])

\* a miss: the result is stored; a full table drops its least recently used
\* entry first
lru_miss(entries, word, val) ==
  LET kept == IF Len(entries) >= CacheCapacity THEN Tail(entries) ELSE entries
  IN  Append(kept, [word |-> word, val |-> val])

\* line 56: get_synonyms behind its lru_cache; order is the iteration order
\* of the set, should the body run
cached_get_synonyms(inner, word, order) ==
  LET i == lru_find(inner, word) IN
  IF i # 0
    THEN [entries |-> lru_hit(inner, i), val |-> inner[i].val, computed |-> FALSE]
    ELSE [entries |-> lru_miss(inner, word, get_synonyms(word, order)),
          val |-> get_synonyms(word, order), computed |-> TRUE]

\* lines 78-84: get_cache_synonyms behind its lru_cache
cached_get_cache_synonyms(c, word, order) ==
  LET i == lru_find(c.outer, word) IN
  IF i # 0
    THEN [cache |-> [c EXCEPT !.outer = lru_hit(c.outer, i)],
          val |-> c.outer[i].val, phases |-> <<"hit">>, evicted |-> <<>>]
    ELSE LET r == cached_get_synonyms(c.inner, word, order) IN
         [cache |-> [c EXCEPT !.outer = lru_miss(c.outer, word, r.val),
                              !.inner = r.entries],
          val |-> r.val,
          phases |-> <<"miss", IF r.computed THEN "computed" ELSE "inner hit">>,
          evicted |-> IF Len(c.outer) >= CacheCapacity
                        THEN <<c.outer[1].word>> ELSE <<>>]

GetCacheSynonymsCall(word, order) ==
  /\ Len(cache.history) < MaxLookups
  /\ LET r == cached_get_cache_synonyms(cache, word, order) IN
       /\ cache' = [r.cache EXCEPT
                      !.history = Append(@, [word |-> word, val |-> r.val])]
       /\ out' = [result |-> r.val, phases |-> r.phases, log |-> r.evicted,
                  raised |-> FALSE]
  /\ call' = [fn |-> "get_cache_synonyms", word |-> word, order |-> order]
  /\ UNCHANGED <<sindex, today, ivars, xvars, cvars>>

InitCache ==
  /\ InitIndex
  /\ InitConfigLoaded
  /\ xin = NoFile
  /\ xout = NotRun
  /\ InitQueryIdle

NextCache == \E word \in CacheWords, order \in 0..1 : GetCacheSynonymsCall(word, order)

SpecCache == InitCache /\ [][NextCache]_vars

(***************************************************************************)
(* Claims about the cache of synonyms                                      *)
(***************************************************************************)
Front(h) == SubSeq(h, 1, Len(h) - 1)

\* the words looked up in h, each once, in the order of their last lookup
RECURSIVE ByLastUse(_)
ByLastUse(h) ==
  IF h = <<>> THEN <<>>
  ELSE Append(SelectSeq(ByLastUse(Front(h)), LAMBDA w : w # h[Len(h)].word),
              h[Len(h)].word)

\* the n most recently used words of h, the least recently used first
MostRecent(h, n) ==
  LET u == ByLastUse(h) IN
  IF Len(u) <= n THEN u ELSE SubSeq(u, Len(u) - n + 1, Len(u))

WordsOf(entries) == [i \in DOMAIN entries |-> entries[i].word]

\* what the last earlier lookup of the word of the last lookup returned
MemoizedBefore(h) ==
  LET w == h[Len(h)].word
      k == CHOOSE k \in 1..(Len(h) - 1) :
             h[k].word = w /\ \A m \in (k + 1)..(Len(h) - 1) : h[m].word # w
  IN  h[k].val

\* C17: the table of memoized lookups never holds more than its capacity of
\* entries; it holds the most recently used words, so that the entry dropped
\* to admit a new word at capacity is the least recently used one; and the
\* lookup of a word still in the table returns the memoized list, nothing
\* being computed.
C17_BoundedLruCache ==
  /\ Len(cache.outer) <= CacheCapacity
  /\ Len(cache.inner) <= CacheCapacity
  /\ WordsOf(cache.outer) = MostRecent(cache.history, CacheCapacity)
  /\ cache.history # <<>> =>
       LET h == cache.history
           before == MostRecent(Front(h), CacheCapacity)
           w == h[Len(h)].word
       IN  /\ out.result = h[Len(h)].val
           /\ w \in Range(before)
                => /\ out.phases = <<"hit">>
                   /\ out.log = <<>>
                   /\ out.result = MemoizedBefore(h)
           /\ w \notin Range(before)
                => /\ out.phases[1] = "miss"
                   /\ out.log = IF Len(before) = CacheCapacity
                                  THEN <<before[1]>> ELSE <<>>

\* car, cars, car again (a hit, returning the list memoized under the first
\* order), then a third word: cars, not car, is dropped
C17_LeastRecentlyUsedEvicted ==
  /\ Len(cache.history) = 4
  /\ cache.history[1].word = "car" /\ cache.history[2].word = "cars"
  /\ cache.history[3].word = "car" /\ cache.history[3].val = cache.history[1].val
  /\ call.word = "the"
  /\ out.log = <<"cars">>
  /\ WordsOf(cache.outer) = <<"car", "the">>

(***************************************************************************)
(* Claims about search by file name and by date                            *)
(***************************************************************************)
\* the query token, when the name given is one token
QueryToken == str_strip(str_lower(call.filename))
OneToken == StandardAnalyzer(QueryToken) = <<QueryToken>>

Distance(d) == Levenshtein(str_lower(d.filename), QueryToken)

\* C8: search_by_filename returns every indexed document whose stored
\* filename is at edit distance <= 2 from the query token, also when the
\* filename does not contain the query; a filename at distance > 2 that does
\* not contain the query is not returned.
C8_FuzzyFilenameBound ==
  (call.fn = "search_by_filename" /\ OneToken)
  => \A d \in Range(sindex) :
       /\ Distance(d) <= 2 => d.path \in PathsOf(out.result)
       /\ (Distance(d) > 2 /\ ~Contains(str_lower(d.filename), QueryToken))
            => d.path \notin PathsOf(out.result)

\* what a bound stands for when the words in kw are the relative keywords
BoundDay(s, kw) ==
  IF ~Truthy(s) THEN NoDate
  ELSE IF bound_lower(s) = kw[1] THEN ADate(today)
  ELSE IF bound_lower(s) = kw[2] THEN ADate(today - 1)
  ELSE IF s \in IsoDates THEN strptime(s)
  ELSE ValueError

\* the range the call has to execute for the bounds lo and hi
ExpectedRange(lo, hi) ==
  DateRange("last_modified",
            IF lo # NoDate THEN lo.day * TicksPerDay ELSE 0,
            IF hi # NoDate THEN hi.day * TicksPerDay + (TicksPerDay - 1)
            ELSE today * TicksPerDay + (TicksPerDay - 1))

\* a relative keyword (of kw, in any letter case) given for a bound, the
\* other bound absent, a date or a keyword too: the bounds are resolved to
\* today and to the day before it, and the range is executed
KeywordsResolved(kw) ==
  LET lo == BoundDay(call.start_date_str, kw)
      hi == BoundDay(call.end_date_str, kw)
      given == {bound_lower(call.start_date_str), bound_lower(call.end_date_str)}
  IN  (/\ call.fn = "search_time_range"
       /\ given \cap {kw[1], kw[2]} # {}
       /\ lo # ValueError /\ hi # ValueError)
      => /\ out.phases # <<"ValueError">>
         /\ out.log = <<ExpectedRange(lo, hi)>>

\* C9 (as amended): search_time_range accepts the Russian words for today
\* and yesterday (segodnya, vchera), in any letter case, for either bound,
\* and resolves them to the current date and the day before it.
C9_RussianKeywordsResolved == KeywordsResolved(<<"segodnya", "vchera">>)

C9_UpperCaseKeywordResolved ==
  /\ call.fn = "search_time_range"
  /\ call.start_date_str = "SEGODNYA"
  /\ call.end_date_str = "Vchera"
  /\ out.log = <<DateRange("last_modified", today * TicksPerDay,
                           (today - 1) * TicksPerDay + (TicksPerDay - 1))>>

\* C9 (as claimed): search_time_range accepts the keywords today and
\* yesterday, in any letter case, for either bound, and resolves them to the
\* current date and the day before it instead of treating them as invalid.
C9_TodayYesterdayResolved == KeywordsResolved(<<"today", "yesterday">>)

InRange(lo, hi) ==
  {d \in Range(sindex) : lo <= d.last_modified /\ d.last_modified <= hi}

\* C10: for valid bounds search_time_range executes exactly the inclusive
\* range from the start of the start day (of 1970-01-01 without a start) to
\* the end of the end day (of today without an end), so that a document
\* modified at start 00:00:00 or at end 23:59:59 is included; without any
\* bound it sends no query and returns an empty list.
C10_InclusiveDayRange ==
  LET kw == <<"segodnya", "vchera">>
      lo == BoundDay(call.start_date_str, kw)
      hi == BoundDay(call.end_date_str, kw)
      q == ExpectedRange(lo, hi)
  IN  (call.fn = "search_time_range" /\ lo # ValueError /\ hi # ValueError)
      => IF lo = NoDate /\ hi = NoDate
           THEN out.log = <<>> /\ out.result = <<>>
           ELSE /\ out.log = <<q>>
                /\ IsTopOf(out.result, InRange(q.start, q.end), call.limit)
                /\ \A i \in DOMAIN out.result :
                     \E d \in Range(sindex) :
                        d.path = out.result[i].path
                        /\ d.last_modified = out.result[i].last_modified
                /\ (call.limit >= Len(sindex) /\ q.start <= q.end)
                     => \A d \in Range(sindex) :
                          d.last_modified \in {q.start, q.end - 1}
                            => d.path \in PathsOf(out.result)

C10_BoundaryDocumentIncluded ==
  /\ call.fn = "search_time_range"
  /\ call.start_date_str = "1970-01-02"
  /\ call.end_date_str = "1970-01-03"
  /\ \E d \in Range(sindex) :
       /\ d.last_modified = 2 * TicksPerDay + (TicksPerDay - 2)
       /\ d.path \in PathsOf(out.result)

\* C13: search_by_filename never raises to its caller: for every name, an
\* empty one, blanks only or one without a token included, it returns a list.
C13_FilenameSearchNeverRaises ==
  call.fn = "search_by_filename" => ~out.raised

(***************************************************************************)
(* config.py: the size of the extraction pool, on any machine              *)
(***************************************************************************)
NotLoaded == -1

\* the import of config.py evaluates the body of class Config
ConfigImport ==
  /\ workers = NotLoaded
  /\ workers' = WORKERS(cpu_count)
  /\ UNCHANGED <<cpu_count, ivars, xvars, qvars>>

InitWorkers ==
  /\ InitIndex
  /\ xin = NoFile
  /\ xout = NotRun
  /\ InitQueryIdle
  /\ cpu_count \in {NoCpuCount} \cup 1..MaxCpus
  /\ workers = NotLoaded

NextWorkers == ConfigImport

SpecWorkers == InitWorkers /\ [][NextWorkers]_vars

\* C21: the size of the extraction pool is between 4 and 8 inclusive for
\* every number of CPUs, 1, 2 and 3 and an undetectable number included.
C21_WorkersBetween4And8 ==
  workers # NotLoaded => (4 <= workers /\ workers <= 8)

====
